---- MODULE Spec2Model ----
(***************************************************************************)
(* Voice translation bot: per-speaker segmentation workers                 *)
(* (process_user_audio), the recording sink (TranslationSink) and the      *)
(* capture/playback hand-over (play_audio) of src/audio_processing.py,     *)
(* with the session start/stop of src/bot.py.                              *)
(*                                                                         *)
(* Time is discrete; one tick is a quarter of a second, so that the        *)
(* silence threshold of 0.5 s is two ticks.  A worker blocked in           *)
(* audio_queue.get reacts at once (to an item or to its timeout); the      *)
(* calls to the external services take arbitrary time and a playback       *)
(* lasts at least one tick.                                                *)
(*                                                                         *)
(* The voice client is the library's: stop_recording ends the receiver,    *)
(* which calls the sink's cleanup, and raises when nothing is recorded;    *)
(* play raises when audio is already playing; write is called only while   *)
(* recording; start_recording raises when the client is not connected or   *)
(* already records.  A voice client that was disconnected stays so: a new  *)
(* join makes a new voice client and a new sink, and the workers and       *)
(* play_audio coroutines of the old one run on with the old objects.       *)
(***************************************************************************)
EXTENDS Integers, Sequences, FiniteSets, TLC

\* ---- bounds of the model
NumSpeakers == 2
NumUsers == 2
MaxRuns == 2
MaxSessions == 2
MaxFrames == 3
MaxPlays == 2
MaxTime == 3

\* silence_threshold = 0.5 seconds, in ticks
silence_threshold == 2

Speakers == 1..NumSpeakers
Sessions == 1..MaxSessions
PlayIds == 1..MaxPlays

\* the end signal put on a queue by cleanup (None in the code)
EndSignal == [sp |-> 0, n |-> 0, t |-> 0]

VARIABLES
    now,                \* time.time(), in ticks
    connected,          \* voice_client.is_connected()
    recording,          \* voice_client.recording
    playing,            \* the play_audio task whose audio is playing, 0: is_playing() false
    playSince,          \* when that audio began to play
    user_queues,        \* sink.user_queues: speaker -> queue, 0: no entry
    processing_threads, \* sink.processing_threads: speaker -> thread, 0: no entry
    nextQ,              \* the next queue/thread object to be created
    inbox,              \* per queue: everything put on it so far, in order
    rd,                 \* per queue: how many items its worker has taken
    pc,                 \* per worker thread: its position in process_user_audio
    accumulated_audio,  \* per worker: the local accumulated_audio
    last_audio_time,    \* per worker: the local last_audio_time, -1: None
    waitStart,          \* per worker: when the current audio_queue.get began
    nextFrame,          \* one more than the number of frames delivered so far
    plays,              \* the play_audio coroutines handed to the event loop
    nextPlay,           \* the next play_audio coroutine to be created
    flushes,            \* per worker: the utterances handed to the pipeline so far,
                        \* each with the pipeline's locals and the calls made for it
    messages,           \* per speaker: the text_channel.send calls handed to the loop
    playOf,             \* per play_audio coroutine: the utterance it was made for
    liveFrom,           \* the first queue/thread object made under the current sink
    sink,               \* the sink the voice client records with: "joined" is the
                        \* one made by join, "rebuilt" one made by play_audio,
                        \* "bare" one without text channel and voice client
    last_sink,          \* voice_client.last_sink, "none": no such attribute
    bot,                \* per worker: its bot argument is a bot (FALSE: None)
    files,              \* per play_audio coroutine: the temporary file of its audio
    idle,               \* per worker: how often audio_queue.get timed out with
                        \* nothing to flush
    config,             \* config.py: which of the three secrets are set
    phase,              \* "import": config.py not yet run, "running", "exited"
    log,                \* the lines written by logger.warning and logger.error
    runs,               \* the pipeline runs made one after the other, with their calls
    user_languages,     \* the file user_languages.json
    voice_assignments,  \* the file user_voice_assignments.json
    target_language,    \* bot.target_language, the language setlang names
    target_lang,        \* per worker: the target_lang argument of its thread
    leave_issued,       \* the leave command was given since the last join
    reply               \* what the last get_user_voice returned, or what setvoice
                        \* or a refused join answered last

vars == <<now, connected, recording, playing, playSince, user_queues, processing_threads,
          nextQ, inbox, rd, pc, accumulated_audio, last_audio_time, waitStart,
          nextFrame, plays, nextPlay, flushes, messages, playOf, liveFrom, idle,
          sink, last_sink, bot, files, config, phase, log, runs, user_languages, voice_assignments,
          target_language, target_lang, leave_issued, reply>>

sinkVars == <<user_queues, processing_threads, nextQ, liveFrom, sink, last_sink>>
workerVars == <<pc, accumulated_audio, last_audio_time, waitStart, rd, flushes, messages,
               idle, bot, target_lang>>
voiceVars == <<connected, recording, playing, playSince>>
playVars == <<plays, nextPlay, playOf, files>>
serviceVars == <<config, phase, log, runs>>
prefVars == <<user_languages, voice_assignments, target_language, reply>>

\* ---- helpers

\* the items of queue q not yet taken by its worker
Pending(q) == SubSeq(inbox[q], rd[q] + 1, Len(inbox[q]))

\* threading.Thread.is_alive
IsAlive(q) == q # 0 /\ pc[q] \notin {"none", "ended"}

\* the queues the sink's map holds
MappedQueues == {user_queues[s] : s \in Speakers} \ {0}

NoPlay == [st |-> "none", was |-> FALSE, log |-> <<>>]

\* no utterance: the queue and the number of the flush are both 0
NoUtterance == [q |-> 0, k |-> 0]

\* the speaker whose frames queue q carries (user_id of its worker)
SpeakerOf(q) == IF inbox[q] = <<>> THEN 0 ELSE inbox[q][1].sp

\* voice_client.is_connected() as worker q sees it: its voice client is the
\* one of the join under which it was started
Connected(q) == connected /\ q >= liveFrom

\* play_audio coroutine p holds the voice client of an earlier join
Stale(p) == playOf[p].q < liveFrom

Users == 1..NumUsers

\* str(user_id), the key of a user in the two JSON files
Key(u) == ToString(u)

Keys == {Key(u) : u \in Users}

\* a key that a JSON object does not hold
Absent == ""

\* a user without an entry in user_languages.json
NoEntry == [has |-> FALSE, input |-> Absent, output |-> Absent]

\* user_languages.json does not exist (or does not parse)
NoLanguages == [valid |-> FALSE, data |-> [k \in Keys |-> NoEntry]]

\* no get_user_voice, setvoice or refused join yet
NoReply == [call |-> "none", user |-> 0, value |-> Absent]

\* user_voice_assignments.json does not exist (or does not parse)
NoVoices == [valid |-> FALSE, data |-> [k \in Keys |-> Absent]]

\* the state right after a successful join, but for voice_client.last_sink:
\* connected, recording with a new sink over an empty user_queues map,
\* nothing playing
InitCapture ==
    /\ now = 0
    /\ connected = TRUE
    /\ recording = TRUE
    /\ playing = 0
    /\ playSince = 0
    /\ user_queues = [s \in Speakers |-> 0]
    /\ processing_threads = [s \in Speakers |-> 0]
    /\ nextQ = 1
    /\ inbox = [q \in Sessions |-> <<>>]
    /\ rd = [q \in Sessions |-> 0]
    /\ pc = [q \in Sessions |-> "none"]
    /\ accumulated_audio = [q \in Sessions |-> <<>>]
    /\ last_audio_time = [q \in Sessions |-> -1]
    /\ waitStart = [q \in Sessions |-> 0]
    /\ nextFrame = 1
    /\ plays = [p \in PlayIds |-> NoPlay]
    /\ nextPlay = 1
    /\ flushes = [q \in Sessions |-> <<>>]
    /\ messages = [s \in Speakers |-> <<>>]
    /\ playOf = [p \in PlayIds |-> NoUtterance]
    /\ liveFrom = 1
    /\ idle = [q \in Sessions |-> 0]
    /\ files = [p \in PlayIds |-> "none"]
    /\ bot = [q \in Sessions |-> FALSE]
    /\ leave_issued = FALSE
    /\ target_lang = [q \in Sessions |-> Absent]

\* join has stored its sink as voice_client.last_sink
InitSession == InitCapture /\ sink = "joined" /\ last_sink = "joined"

\* config.py has run with every secret set; no preference was stored yet
InitServices ==
    /\ config = [DISCORD_TOKEN |-> TRUE, ELEVENLABS_API_KEY |-> TRUE,
                 MISTRAL_API_KEY |-> TRUE]
    /\ phase = "running"
    /\ log = <<>>
    /\ runs = <<>>
    /\ user_languages = NoLanguages
    /\ voice_assignments = NoVoices
    /\ target_language = "Spanish"
    /\ reply = NoReply

Init == InitSession /\ InitServices

\* ---- TranslationSink

NeedNew_Always(s) == TRUE

\* the test of write that decides whether a new queue and thread are made
NeedNew(s) ==
    \/ user_queues[s] = 0
    \/ processing_threads[s] = 0
    \/ ~IsAlive(processing_threads[s])

QueueHasRoom_One(q) == Len(Pending(q)) < 1

\* queue.Queue() has no maxsize: put never waits for room
QueueHasRoom(q) == TRUE

PutFrame_Broadcast(boxes, q, f) ==
    [x \in Sessions |-> IF x = q \/ pc[x] # "none" THEN Append(boxes[x], f) ELSE boxes[x]]

\* self.user_queues[user_id].put(data)
PutFrame(boxes, q, f) == [boxes EXCEPT ![q] = Append(@, f)]

\* getattr(self, 'bot', None): join sets the attribute on its sink, the sink
\* that play_audio builds has none
SinkHasBot == sink = "joined"

HasDestination_Always == TRUE

\* "if text_channel and voice_client:": join and play_audio give their sinks
\* both, a sink as TranslationSink(user_queues) constructs it has neither
HasDestination == sink # "bare"

\* "getattr(bot, 'target_language', 'Spanish') if bot else 'Spanish'"
TargetLanguage == IF SinkHasBot THEN target_language ELSE "Spanish"

\* TranslationSink.write(data, user_id), called by the voice receiver for
\* every decoded frame while recording; the data are told apart by their
\* speaker, their place on the queue and their arrival time
Write(s) ==
    LET tq == IF NeedNew(s) THEN nextQ ELSE user_queues[s]
        f == [sp |-> s, n |-> Len(inbox[tq]) + 1, t |-> now] IN
    /\ recording
    /\ nextFrame <= MaxFrames
    /\ QueueHasRoom(tq)
    /\ nextFrame' = nextFrame + 1
    /\ IF NeedNew(s)
       THEN /\ nextQ <= MaxSessions
            /\ user_queues' = [user_queues EXCEPT ![s] = nextQ]
            /\ nextQ' = nextQ + 1
            /\ IF HasDestination
               THEN /\ processing_threads' = [processing_threads EXCEPT ![s] = nextQ]
                    /\ pc' = [pc EXCEPT ![nextQ] = "wait"]
                    /\ waitStart' = [waitStart EXCEPT ![nextQ] = now]
                    /\ bot' = [bot EXCEPT ![nextQ] = SinkHasBot]
                    /\ target_lang' = [target_lang EXCEPT ![nextQ] = TargetLanguage]
               ELSE UNCHANGED <<processing_threads, pc, waitStart, bot, target_lang>>
            /\ inbox' = PutFrame(inbox, nextQ, f)
       ELSE /\ inbox' = PutFrame(inbox, user_queues[s], f)
            /\ UNCHANGED <<user_queues, processing_threads, nextQ, pc, waitStart, bot, target_lang>>
    /\ UNCHANGED <<serviceVars, prefVars, leave_issued, now, voiceVars, playVars, rd, accumulated_audio,
                   last_audio_time, flushes, messages, liveFrom, idle,
                   sink, last_sink>>

Cleanup_Nothing(boxes) == boxes

\* TranslationSink.cleanup: the end signal on every queue of the map
Cleanup(boxes) ==
    [q \in Sessions |->
        IF q \in MappedQueues THEN Append(boxes[q], EndSignal) ELSE boxes[q]]

\* voice_client.stop_recording(): the receiver stops and calls sink.cleanup()
StopRecording ==
    /\ recording' = FALSE
    /\ inbox' = Cleanup(inbox)

\* ---- process_user_audio, the worker thread of one queue

ResetBuffer_Keep(q) ==
    /\ pc' = [pc EXCEPT ![q] = "wait"]
    /\ waitStart' = [waitStart EXCEPT ![q] = now]
    /\ UNCHANGED accumulated_audio

\* "Reset for next utterance" and back to audio_queue.get
ResetBuffer(q) ==
    /\ accumulated_audio' = [accumulated_audio EXCEPT ![q] = <<>>]
    /\ pc' = [pc EXCEPT ![q] = "wait"]
    /\ waitStart' = [waitStart EXCEPT ![q] = now]

Extend_Front(buf, chunk) == <<chunk>> \o buf

\* accumulated_audio.extend(chunk)
Extend(buf, chunk) == Append(buf, chunk)

WorkerGet_Deaf(q) ==
    LET chunk == Head(Pending(q)) IN
    /\ pc[q] = "wait"
    /\ Pending(q) # <<>>
    /\ rd' = [rd EXCEPT ![q] = @ + 1]
    /\ IF chunk = EndSignal
       THEN /\ waitStart' = [waitStart EXCEPT ![q] = now]
            /\ UNCHANGED <<pc, accumulated_audio, last_audio_time>>
       ELSE /\ accumulated_audio' = [accumulated_audio EXCEPT ![q] = Extend(@, chunk)]
            /\ last_audio_time' = [last_audio_time EXCEPT ![q] = now]
            /\ waitStart' = [waitStart EXCEPT ![q] = now]
            /\ UNCHANGED pc
    /\ UNCHANGED <<serviceVars, prefVars, leave_issued, now, voiceVars, sinkVars, playVars, inbox,
                   nextFrame, flushes, messages, idle, bot, target_lang>>

WorkerGet_Preempt(q) ==
    LET chunk == Head(Pending(q)) IN
    /\ IsAlive(q)
    /\ Pending(q) # <<>>
    /\ pc[q] = "wait" \/ chunk = EndSignal
    /\ rd' = [rd EXCEPT ![q] = @ + 1]
    /\ IF chunk = EndSignal
       THEN /\ pc' = [pc EXCEPT ![q] = "ended"]
            /\ accumulated_audio' = [accumulated_audio EXCEPT ![q] = <<>>]
            /\ last_audio_time' = [last_audio_time EXCEPT ![q] = -1]
            /\ waitStart' = [waitStart EXCEPT ![q] = 0]
       ELSE /\ accumulated_audio' = [accumulated_audio EXCEPT ![q] = Extend(@, chunk)]
            /\ last_audio_time' = [last_audio_time EXCEPT ![q] = now]
            /\ waitStart' = [waitStart EXCEPT ![q] = now]
            /\ UNCHANGED pc
    /\ UNCHANGED <<serviceVars, prefVars, leave_issued, now, voiceVars, sinkVars, playVars, inbox,
                   nextFrame, flushes, messages, idle, bot, target_lang>>

\* audio_queue.get returns an item: the end signal ends the thread (its
\* locals are gone), a frame is appended to accumulated_audio
WorkerGet(q) ==
    LET chunk == Head(Pending(q)) IN
    /\ pc[q] = "wait"
    /\ Pending(q) # <<>>
    /\ rd' = [rd EXCEPT ![q] = @ + 1]
    /\ IF chunk = EndSignal
       THEN /\ pc' = [pc EXCEPT ![q] = "ended"]
            /\ accumulated_audio' = [accumulated_audio EXCEPT ![q] = <<>>]
            /\ last_audio_time' = [last_audio_time EXCEPT ![q] = -1]
            /\ waitStart' = [waitStart EXCEPT ![q] = 0]
       ELSE /\ accumulated_audio' = [accumulated_audio EXCEPT ![q] = Extend(@, chunk)]
            /\ last_audio_time' = [last_audio_time EXCEPT ![q] = now]
            /\ waitStart' = [waitStart EXCEPT ![q] = now]
            /\ UNCHANGED pc
    /\ UNCHANGED <<serviceVars, prefVars, leave_issued, now, voiceVars, sinkVars, playVars, inbox, nextFrame, flushes,
                   messages, idle, bot, target_lang>>

FlushDue_Stale(q) ==
    /\ last_audio_time[q] # -1
    /\ now - last_audio_time[q] >= silence_threshold

\* the test of the queue.Empty handler: is there an utterance to process
FlushDue(q) ==
    /\ accumulated_audio[q] # <<>>
    /\ last_audio_time[q] # -1
    /\ now - last_audio_time[q] >= silence_threshold

\* the utterance worker q is processing: the last one it flushed
Current(q) == flushes[q][Len(flushes[q])]

\* the record of the utterance in process is replaced by u
SetCurrent(q, u) == [flushes EXCEPT ![q][Len(flushes[q])] = u]

\* the pipeline is left: its locals are dead until the next utterance
Left(u) == [u EXCEPT !.transcription = "", !.answer = "", !.translation = ""]

\* audio_queue.get times out: the accumulated audio is handed to the
\* pipeline (transcribe_audio is called with it), or the wait starts again
Timeout(q) ==
    /\ pc[q] = "wait"
    /\ Pending(q) = <<>>
    /\ now - waitStart[q] >= silence_threshold
    /\ IF FlushDue(q)
       THEN /\ flushes' = [flushes EXCEPT ![q] =
                    Append(@, [audio |-> accumulated_audio[q], seen |-> Len(inbox[q]),
                               steps |-> <<"transcribe">>,
                               transcription |-> "", answer |-> "",
                               translation |-> "", target |-> Absent])]
            /\ pc' = [pc EXCEPT ![q] = "transcribe"]
            /\ UNCHANGED <<waitStart, idle>>
       ELSE /\ waitStart' = [waitStart EXCEPT ![q] = now]
            /\ idle' = [idle EXCEPT ![q] = @ + 1]
            /\ UNCHANGED <<flushes, pc>>
    /\ UNCHANGED <<serviceVars, prefVars, leave_issued, now, voiceVars, sinkVars, playVars, inbox, rd, nextFrame,
                   accumulated_audio, last_audio_time, messages, bot, target_lang>>

\* what transcribe_audio can return: "" (nothing understood, audio too
\* short, any error of the service) or the stripped text
Transcripts == {"", "hello"}

HasText_Always(text) == TRUE

\* "if transcription:"
HasText(text) == text # ""

TargetLang_Current(q) == target_language

\* the target_lang argument of process_user_audio, which translate_text is
\* called with
TargetLang(q) == target_lang[q]

\* transcribe_audio returns; with a transcript translate_text is called,
\* without one the rest of the pipeline is skipped
TranscribeReturn(q, text) ==
    /\ pc[q] = "transcribe"
    /\ IF HasText(text)
       THEN /\ pc' = [pc EXCEPT ![q] = "translate"]
            /\ flushes' = SetCurrent(q, [Current(q) EXCEPT
                              !.transcription = text,
                              !.target = TargetLang(q),
                              !.steps = Append(@, "translate")])
            /\ UNCHANGED <<accumulated_audio, waitStart>>
       ELSE /\ ResetBuffer(q)
            /\ UNCHANGED flushes
    /\ UNCHANGED <<serviceVars, prefVars, leave_issued, now, voiceVars, sinkVars, playVars, inbox, rd, nextFrame,
                   last_audio_time, messages, idle, bot, target_lang>>

\* how the chat completion call of translate_text can end: status 200 with
\* a content, another status, an exception
Answers == {"ok", "status", "exception"}

\* the content of a 200 answer
Content == "hola"

TranslateText_Drop(text, answer) ==
    IF answer = "ok" THEN Content ELSE ""

\* translate_text(text, ...): "" for an empty text, the content of a 200
\* answer, the text itself after another status or an exception
TranslateText(text, answer) ==
    IF text = "" THEN ""
    ELSE IF answer = "ok" THEN Content ELSE text

SendMessage_Skip(q, translation) == UNCHANGED messages

\* run_coroutine_threadsafe(text_channel.send(...)) with the user id, the
\* transcript and the translation
SendMessage(q, translation) ==
    messages' = [messages EXCEPT ![SpeakerOf(q)] =
                     Append(@, [q |-> q, k |-> Len(flushes[q]),
                                transcription |-> Current(q).transcription,
                                translation |-> translation])]

Caught_Dies(q) ==
    /\ pc' = [pc EXCEPT ![q] = "ended"]
    /\ accumulated_audio' = [accumulated_audio EXCEPT ![q] = <<>>]
    /\ UNCHANGED waitStart

\* "except Exception as e: logger.error(...)", then the reset of the buffer
Caught(q) == ResetBuffer(q)

\* "bot.loop if bot else asyncio.get_event_loop()": without a bot the worker
\* thread asks for its own event loop, and a thread has none (RuntimeError)
HasLoop(q) == bot[q]

\* translate_text returns, the message is handed to the event loop and
\* generate_speech is called; when there is no loop to hand it to, the
\* exception ends the pipeline for this utterance
TranslateReturn(q, answer) ==
    LET translation == TranslateText(Current(q).transcription, answer) IN
    /\ pc[q] = "translate"
    /\ IF HasLoop(q)
       THEN /\ pc' = [pc EXCEPT ![q] = "synth"]
            /\ SendMessage(q, translation)
            /\ flushes' = SetCurrent(q, [Current(q) EXCEPT
                              !.answer = answer,
                              !.translation = translation,
                              !.steps = @ \o <<"send", "synthesize">>])
            /\ UNCHANGED <<accumulated_audio, waitStart>>
       ELSE /\ flushes' = SetCurrent(q, Left([Current(q) EXCEPT
                              !.steps = Append(@, "error")]))
            /\ Caught(q)
            /\ UNCHANGED messages
    /\ UNCHANGED <<serviceVars, prefVars, leave_issued, now, voiceVars, sinkVars, playVars, inbox, rd,
                   nextFrame, last_audio_time, idle, bot, target_lang>>

CanPlay_Always(q, path) == Connected(q)

\* "if audio_file_path and voice_client and voice_client.is_connected()"
CanPlay(q, path) == path /\ Connected(q)

\* generate_speech returns a file path or None; with a path and a connected
\* voice client a play_audio coroutine is handed to the event loop
SynthReturn(q, path) ==
    /\ pc[q] = "synth"
    /\ IF CanPlay(q, path)
       THEN /\ nextPlay <= MaxPlays
            /\ plays' = [plays EXCEPT ![nextPlay] = [NoPlay EXCEPT !.st = "scheduled"]]
            /\ playOf' = [playOf EXCEPT ![nextPlay] = [q |-> q, k |-> Len(flushes[q])]]
            /\ files' = [files EXCEPT ![nextPlay] = "stored"]
            /\ nextPlay' = nextPlay + 1
       ELSE UNCHANGED playVars
    /\ flushes' = SetCurrent(q, Left([Current(q) EXCEPT
                      !.steps = IF CanPlay(q, path) THEN Append(@, "play") ELSE @]))
    /\ ResetBuffer(q)
    /\ UNCHANGED <<serviceVars, prefVars, leave_issued, now, voiceVars, sinkVars, inbox, rd, nextFrame,
                   last_audio_time, messages, idle, bot, target_lang>>

\* an exception escapes the pipeline call in progress (the collaborators
\* catch the errors of their services themselves; what escapes is for
\* instance the hand-over of the message or of the playback to a closed event
\* loop): the rest of the pipeline is skipped
PipelineRaises(q) ==
    /\ pc[q] \in {"transcribe", "translate", "synth"}
    /\ flushes' = SetCurrent(q, Left([Current(q) EXCEPT !.steps = Append(@, "error")]))
    /\ Caught(q)
    /\ UNCHANGED <<serviceVars, prefVars, leave_issued, now, voiceVars, sinkVars, playVars, inbox, rd, nextFrame,
                   last_audio_time, messages, idle, bot, target_lang>>

\* ---- play_audio, a coroutine on the event loop

\* every play_audio call that stopped the capture and has not finished yet
\* notes a change of voice_client.recording made in this step
Observe(ps) ==
    [p \in PlayIds |->
        IF ps[p].st = "waiting" /\ ps[p].was /\ ~Stale(p) /\ recording' # recording
        THEN [ps[p] EXCEPT !.log = Append(@, recording')]
        ELSE ps[p]]

PauseIfRecording_Skip == UNCHANGED <<recording, inbox>>

\* was_recording = voice_client.recording; if was_recording: stop_recording()
PauseIfRecording ==
    IF recording THEN StopRecording ELSE UNCHANGED <<recording, inbox>>

\* play_audio up to its first await: remember and stop the recording, start
\* the playback (voice_client.play raises when audio is already playing or
\* the output fails: ok is FALSE)
PlayEnter(p, ok) ==
    LET entered == [was |-> recording,
                    log |-> IF recording' # recording
                            THEN <<recording, recording'>> ELSE <<recording>>] IN
    /\ plays[p].st = "scheduled"
    /\ IF ~Connected(playOf[p].q)
       THEN /\ plays' = [plays EXCEPT ![p].st = "done"]
            /\ UNCHANGED <<recording, inbox, playing, playSince>>
       ELSE /\ PauseIfRecording
            /\ IF playing = 0 /\ ok
               THEN /\ playing' = p
                    /\ playSince' = now
                    /\ plays' = [Observe(plays) EXCEPT
                            ![p] = [st |-> "waiting", was |-> entered.was,
                                    log |-> entered.log]]
               ELSE /\ plays' = [Observe(plays) EXCEPT
                            ![p] = [st |-> "failed", was |-> entered.was,
                                    log |-> entered.log]]
                    /\ UNCHANGED <<playing, playSince>>
    /\ UNCHANGED <<serviceVars, prefVars, leave_issued, now, connected, sinkVars, workerVars, nextFrame,
                   nextPlay, playOf, files>>

\* the audio player reaches the end of the file, some time after its start
PlaybackEnds ==
    /\ playing # 0
    /\ now > playSince
    /\ playing' = 0
    /\ playSince' = 0
    /\ UNCHANGED <<serviceVars, prefVars, leave_issued, now, connected, recording, sinkVars, workerVars, inbox,
                   nextFrame, playVars>>

PlaybackOver_NoWait == TRUE

\* "while voice_client.is_playing(): await asyncio.sleep(0.1)" is left
PlaybackOver == playing = 0

RestartRecording_Never(p) ==
    /\ plays' = [plays EXCEPT ![p].st = "done"]
    /\ UNCHANGED <<recording, sink, last_sink, processing_threads>>

\* "if was_recording": the sink to record with is voice_client.last_sink
\* or, without that attribute, a new TranslationSink over the voice client's
\* user_queues (its processing_threads is empty and it has no bot); it is
\* stored as last_sink, and start_recording raises when the voice client is
\* not connected or already recording
RestartRecording(p) ==
    LET stored == IF last_sink = "none" THEN "rebuilt" ELSE last_sink IN
    IF Stale(p)
    THEN /\ plays' = [plays EXCEPT ![p].st = "failed"]
         /\ UNCHANGED <<recording, sink, last_sink, processing_threads>>
    ELSE /\ last_sink' = stored
         /\ IF Connected(playOf[p].q) /\ ~recording
            THEN /\ recording' = TRUE
                 /\ plays' = [Observe(plays) EXCEPT ![p].st = "done"]
                 /\ sink' = stored
                 /\ processing_threads' =
                        IF stored = sink THEN processing_threads
                        ELSE [s \in Speakers |-> 0]
            ELSE /\ plays' = [plays EXCEPT ![p].st = "failed"]
                 /\ UNCHANGED <<recording, sink, processing_threads>>

Unlink_Kept(fs, p) == fs

\* os.unlink(file_path)
Unlink(fs, p) == [fs EXCEPT ![p] = "deleted"]

\* play_audio after a sleep that finds is_playing() false (a disconnected
\* voice client plays nothing): delete the file and, if it stopped the
\* recording, start it again
PlayWake(p) ==
    /\ plays[p].st = "waiting"
    /\ IF Stale(p) THEN TRUE ELSE PlaybackOver
    /\ files' = Unlink(files, p)
    /\ IF plays[p].was
       THEN RestartRecording(p)
       ELSE /\ plays' = [plays EXCEPT ![p].st = "done"]
            /\ UNCHANGED <<recording, sink, last_sink, processing_threads>>
    /\ UNCHANGED <<serviceVars, prefVars, leave_issued, now, connected, playing, playSince, user_queues,
                   nextQ, liveFrom, workerVars, inbox, nextFrame, nextPlay, playOf>>

\* ---- bot.py

\* the leave command: stop_recording (raises when not recording, and the
\* command ends there), then disconnect, which also stops the player
Leave ==
    /\ connected
    /\ recording
    /\ StopRecording
    /\ connected' = FALSE
    /\ playing' = 0
    /\ playSince' = 0
    /\ plays' = Observe(plays)
    /\ leave_issued' = TRUE
    /\ UNCHANGED <<serviceVars, prefVars, now, sinkVars, workerVars, nextFrame, nextPlay,
                   playOf, files>>

\* the join command after a leave ("if ctx.voice_client" rejects it while
\* connected): a new voice client, a new sink over an empty user_queues map,
\* recording started; the threads and coroutines of the old sink are not
\* waited for
InSession_Never == FALSE

\* "if ctx.voice_client:", the voice client of the guild, which exists from
\* connect to disconnect
InSession == connected

Join ==
    /\ ~InSession
    /\ connected' = TRUE
    /\ recording' = TRUE
    /\ playing' = 0
    /\ playSince' = 0
    /\ user_queues' = [s \in Speakers |-> 0]
    /\ processing_threads' = [s \in Speakers |-> 0]
    /\ liveFrom' = nextQ
    /\ sink' = "joined"
    /\ last_sink' = "joined"
    /\ leave_issued' = FALSE
    /\ UNCHANGED <<serviceVars, prefVars, now, nextQ, workerVars, inbox, nextFrame, playVars>>

\* ---- the voice receiver

\* user ids are numbered in the order in which the users are first heard
Heard(s) ==
    IF s = 1 THEN TRUE
    ELSE \E q \in Sessions : SpeakerOf(q) \in {s - 1, s}

\* the receiver decodes a frame of user s and calls the sink's write
Receive(s) == Heard(s) /\ Write(s)

\* ---- time

\* a quarter of a second passes, up to the time limit; a worker blocked in
\* get does not let an item or its timeout wait
TickTo(limit) ==
    /\ now < limit
    /\ \A q \in Sessions :
          pc[q] = "wait" =>
              /\ Pending(q) = <<>>
              /\ now - waitStart[q] < silence_threshold
    /\ now' = now + 1
    /\ UNCHANGED <<serviceVars, prefVars, leave_issued, voiceVars, sinkVars, workerVars, inbox,
                   nextFrame, playVars>>

Tick == TickTo(MaxTime)

Next ==
    \/ \E s \in Speakers : Receive(s)
    \/ \E q \in Sessions : WorkerGet(q)
    \/ \E q \in Sessions : Timeout(q)
    \/ \E q \in Sessions, text \in Transcripts : TranscribeReturn(q, text)
    \/ \E q \in Sessions, answer \in Answers : TranslateReturn(q, answer)
    \/ \E q \in Sessions, path \in BOOLEAN : SynthReturn(q, path)
    \/ \E q \in Sessions : PipelineRaises(q)
    \/ \E p \in PlayIds, ok \in BOOLEAN : PlayEnter(p, ok)
    \/ PlaybackEnds
    \/ \E p \in PlayIds : PlayWake(p)
    \/ Leave
    \/ Join
    \/ Tick

Spec == Init /\ [][Next]_vars

\* one speaker alone, for long enough to say two utterances
LongTime == 2 * silence_threshold

TickLong == TickTo(LongTime)

NextSolo ==
    \/ Receive(1)
    \/ \E q \in Sessions : WorkerGet(q)
    \/ \E q \in Sessions : Timeout(q)
    \/ \E q \in Sessions, text \in Transcripts : TranscribeReturn(q, text)
    \/ \E q \in Sessions, answer \in Answers : TranslateReturn(q, answer)
    \/ \E q \in Sessions, path \in BOOLEAN : SynthReturn(q, path)
    \/ \E q \in Sessions : PipelineRaises(q)
    \/ \E p \in PlayIds, ok \in BOOLEAN : PlayEnter(p, ok)
    \/ PlaybackEnds
    \/ \E p \in PlayIds : PlayWake(p)
    \/ Leave
    \/ Join
    \/ TickLong

SpecSolo == Init /\ [][NextSolo]_vars

\* a step of worker thread q: the thread is scheduled, and the call of a
\* service it waits for returns
WorkerStep(q) ==
    \/ WorkerGet(q)
    \/ Timeout(q)
    \/ \E text \in Transcripts : TranscribeReturn(q, text)
    \/ \E answer \in Answers : TranslateReturn(q, answer)
    \/ \E path \in BOOLEAN : SynthReturn(q, path)

\* every worker thread that can take a step does so in the end
SpecFair == SpecSolo /\ \A q \in Sessions : WF_vars(WorkerStep(q))

\* the voice client has no last_sink attribute when play_audio first resumes
\* the capture
InitLost == InitCapture /\ sink = "joined" /\ last_sink = "none" /\ InitServices

\* long enough for one speaker to say an utterance, have it played and say
\* another one after the capture was resumed
LostTime == 2 * silence_threshold + 1

TickLost == TickTo(LostTime)

NextLost ==
    \/ Receive(1)
    \/ \E q \in Sessions : WorkerGet(q)
    \/ \E q \in Sessions : Timeout(q)
    \/ \E q \in Sessions, text \in Transcripts : TranscribeReturn(q, text)
    \/ \E q \in Sessions, answer \in Answers : TranslateReturn(q, answer)
    \/ \E q \in Sessions, path \in BOOLEAN : SynthReturn(q, path)
    \/ \E q \in Sessions : PipelineRaises(q)
    \/ \E p \in PlayIds, ok \in BOOLEAN : PlayEnter(p, ok)
    \/ PlaybackEnds
    \/ \E p \in PlayIds : PlayWake(p)
    \/ Leave
    \/ Join
    \/ TickLost

SpecLost == InitLost /\ [][NextLost]_vars

\* ---- config.py, and the pipeline of one utterance as a function of its
\* audio and of the answers of the three services

sessionVars == <<now, voiceVars, sinkVars, workerVars, inbox, nextFrame, playVars,
                 leave_issued>>

\* "if not audio_data or len(audio_data) < 1000"
MinAudioBytes == 1000

AudioSizes == {0, MinAudioBytes - 1, MinAudioBytes}

Line(level, by, about) == [level |-> level, by |-> by, about |-> about]

\* the import of config.py: without DISCORD_TOKEN an error and sys.exit(1),
\* otherwise a warning for each of the two API keys that is not set
LoadConfig ==
    /\ phase = "import"
    /\ IF ~config.DISCORD_TOKEN
       THEN /\ log' = Append(log, Line("error", "config", "DISCORD_TOKEN"))
            /\ phase' = "exited"
       ELSE /\ log' = log
                  \o (IF config.ELEVENLABS_API_KEY THEN <<>>
                      ELSE <<Line("warning", "config", "ELEVENLABS_API_KEY")>>)
                  \o (IF config.MISTRAL_API_KEY THEN <<>>
                      ELSE <<Line("warning", "config", "MISTRAL_API_KEY")>>)
            /\ phase' = "running"
    /\ UNCHANGED <<config, runs, prefVars, sessionVars>>

\* how the speech-to-text request can end: 200 with a text, 200 with nothing
\* but sounds in parentheses, another status; "unreadable": the conversion
\* of the raw audio raises before any request
SttAnswers == {"text", "sounds", "status", "unreadable"}

\* transcribe_audio after its size test: conversion, key test, request
Transcribed(size, answer) ==
    IF answer = "unreadable"
    THEN [text |-> "", request |-> FALSE,
          lines |-> <<Line("error", "transcribe_audio", "conversion")>>]
    ELSE IF ~config.ELEVENLABS_API_KEY
    THEN [text |-> "", request |-> FALSE,
          lines |-> <<Line("error", "transcribe_audio", "ELEVENLABS_API_KEY")>>]
    ELSE [text |-> IF answer = "text" THEN "hello" ELSE "", request |-> TRUE,
          lines |-> IF answer = "status"
                    THEN <<Line("error", "transcribe_audio", "status")>> ELSE <<>>]

TranscribeAudio_NoFloor(size, answer) == Transcribed(size, answer)

\* transcribe_audio(audio_data): the text, whether a request was sent, and
\* the lines logged
TranscribeAudio(size, answer) ==
    IF size < MinAudioBytes
    THEN [text |-> "", request |-> FALSE,
          lines |-> <<Line("warning", "transcribe_audio", "too small")>>]
    ELSE Transcribed(size, answer)

\* generate_speech(text): whether a file path is returned, whether a
\* request was sent, and the lines logged
GenerateSpeech(text, ok) ==
    IF text = ""
    THEN [path |-> FALSE, request |-> FALSE,
          lines |-> <<Line("warning", "generate_speech", "empty text")>>]
    ELSE IF ~config.ELEVENLABS_API_KEY
    THEN [path |-> FALSE, request |-> FALSE,
          lines |-> <<Line("error", "generate_speech", "ELEVENLABS_API_KEY")>>]
    ELSE [path |-> ok, request |-> TRUE,
          lines |-> IF ok THEN <<>> ELSE <<Line("error", "generate_speech", "status")>>]

\* the try block of process_user_audio for one utterance of the given size,
\* the calls it makes and what they log
ProcessUtterance(size, stt, answer, tts) ==
    LET heard == TranscribeAudio(size, stt)
        translation == TranslateText(heard.text, answer)
        speech == GenerateSpeech(translation, tts) IN
    /\ phase = "running"
    /\ Len(runs) < MaxRuns
    /\ IF HasText(heard.text)
       THEN /\ runs' = Append(runs,
                    [size |-> size,
                     steps |-> <<"transcribe", "translate", "send", "synthesize">>
                               \o (IF speech.path THEN <<"play">> ELSE <<>>),
                     requests |-> <<heard.request, TRUE, speech.request>>])
            /\ log' = log \o heard.lines \o speech.lines
       ELSE /\ runs' = Append(runs,
                    [size |-> size, steps |-> <<"transcribe">>,
                     requests |-> <<heard.request, FALSE, FALSE>>])
            /\ log' = log \o heard.lines
                          \o <<Line("warning", "process_user_audio", "no transcription")>>
    /\ UNCHANGED <<config, phase, prefVars, sessionVars>>

\* the program is started with any of the secrets set or not
InitApi ==
    /\ InitSession
    /\ config \in [DISCORD_TOKEN : BOOLEAN, ELEVENLABS_API_KEY : BOOLEAN,
                    MISTRAL_API_KEY : BOOLEAN]
    /\ phase = "import"
    /\ log = <<>>
    /\ runs = <<>>
    /\ user_languages = NoLanguages
    /\ voice_assignments = NoVoices
    /\ target_language = "Spanish"
    /\ reply = NoReply

NextApi ==
    \/ LoadConfig
    \/ \E size \in AudioSizes, stt \in SttAnswers, answer \in Answers, tts \in BOOLEAN :
          ProcessUtterance(size, stt, answer, tts)

SpecApi == InitApi /\ [][NextApi]_vars

\* ---- the per-user preferences of api_services.py

\* the languages a user names in the input, output and setlang commands
Languages == {"English", "French"}

\* the voice ids of voices.json
Voices == {"voice-a", "voice-b"}

\* load_user_languages: the parsed file, {} when it is missing or invalid
LoadUserLanguages == IF user_languages.valid THEN user_languages.data ELSE NoLanguages.data

\* save_user_languages: json.dump of the whole object
SaveUserLanguages(preferences) == user_languages' = [valid |-> TRUE, data |-> preferences]

\* load_voice_assignments
LoadVoiceAssignments ==
    IF voice_assignments.valid THEN voice_assignments.data ELSE NoVoices.data

\* save_voice_assignments
SaveVoiceAssignments(assignments) ==
    voice_assignments' = [valid |-> TRUE, data |-> assignments]

\* the defaults a caller supplies to the two getters
Defaults == {"English", "Spanish", "German"}

\* get_user_input_language(user_id, default) as it reads the given file
GetUserInputLanguage(file, u, default) ==
    LET preferences == IF file.valid THEN file.data ELSE NoLanguages.data IN
    IF preferences[Key(u)].has /\ preferences[Key(u)].input # Absent
    THEN preferences[Key(u)].input ELSE default

GetUserOutputLanguage_Input(file, u, default) == GetUserInputLanguage(file, u, default)

\* get_user_output_language(user_id, default) as it reads the given file
GetUserOutputLanguage(file, u, default) ==
    LET preferences == IF file.valid THEN file.data ELSE NoLanguages.data IN
    IF preferences[Key(u)].has /\ preferences[Key(u)].output # Absent
    THEN preferences[Key(u)].output ELSE default

\* get_user_input_language(user_id)
InputLanguage(file, u) == GetUserInputLanguage(file, u, "English")

\* get_user_output_language(user_id)
OutputLanguage(file, u) == GetUserOutputLanguage(file, u, "Spanish")

\* the voice assigned to the user in the given file, Absent if none
AssignedVoice(file, u) ==
    LET assignments == IF file.valid THEN file.data ELSE NoVoices.data IN
    assignments[Key(u)]

SetUserInputLanguage_Fresh(u, language) ==
    /\ SaveUserLanguages([LoadUserLanguages EXCEPT
            ![Key(u)] = [has |-> TRUE, input |-> language, output |-> Absent]])
    /\ UNCHANGED <<voice_assignments, target_language, reply, serviceVars, sessionVars>>

\* set_user_input_language(user_id, language)
SetUserInputLanguage(u, language) ==
    /\ SaveUserLanguages([LoadUserLanguages EXCEPT
            ![Key(u)] = [@ EXCEPT !.has = TRUE, !.input = language]])
    /\ UNCHANGED <<voice_assignments, target_language, reply, serviceVars, sessionVars>>

\* set_user_output_language(user_id, language)
SetUserOutputLanguage(u, language) ==
    /\ SaveUserLanguages([LoadUserLanguages EXCEPT
            ![Key(u)] = [@ EXCEPT !.has = TRUE, !.output = language]])
    /\ UNCHANGED <<voice_assignments, target_language, reply, serviceVars, sessionVars>>

\* assign_voice_to_user(user_id, voice_id)
AssignVoiceToUser(u, voice_id) ==
    /\ SaveVoiceAssignments([LoadVoiceAssignments EXCEPT ![Key(u)] = voice_id])
    /\ UNCHANGED <<user_languages, target_language, reply, serviceVars, sessionVars>>

\* the voices of voices.json in their order
VoiceList == <<"voice-a", "voice-b">>

\* what get_elevenlabs_voices can return: [] when voices.json is missing or
\* invalid, otherwise its list
VoiceFiles == {<<>>, VoiceList}

\* the voice of config.py, used when none can be assigned
ELEVENLABS_VOICE_ID == "voice-default"

HasVoice_Never(assignments, u) == FALSE

\* "if str(user_id) in assignments:"
HasVoice(assignments, u) == assignments[Key(u)] # Absent

\* get_user_voice(user_id): the stored voice, or one picked by random.choice
\* and stored, or the configured one when there is none to pick
GetUserVoice(u, voices, pick) ==
    LET assignments == LoadVoiceAssignments
        returned(voice_id) == [call |-> "get_user_voice", user |-> u, value |-> voice_id] IN
    /\ IF HasVoice(assignments, u)
       THEN /\ reply' = returned(assignments[Key(u)])
            /\ UNCHANGED voice_assignments
       ELSE IF voices = <<>>
       THEN /\ reply' = returned(ELEVENLABS_VOICE_ID)
            /\ UNCHANGED voice_assignments
       ELSE /\ pick \in 1..Len(voices)
            /\ SaveVoiceAssignments([assignments EXCEPT ![Key(u)] = voices[pick]])
            /\ reply' = returned(voices[pick])
    /\ UNCHANGED <<user_languages, target_language, serviceVars, sessionVars>>

\* the arguments given to setvoice: none, a word, numbers
NoArgument == "None"

VoiceNumbers == -1..(Len(VoiceList) + 1)

VoiceArguments == {NoArgument, "two"} \cup {ToString(n) : n \in VoiceNumbers}

\* int(voice_index) succeeds
IsNumber(voice_index) == \E n \in VoiceNumbers : ToString(n) = voice_index

\* int(voice_index)
ParseInt(voice_index) == CHOOSE n \in VoiceNumbers : ToString(n) = voice_index

InRange_Below(index, voices) == index < Len(voices)

\* not "index < 0 or index >= len(voices)"
InRange(index, voices) == ~(index < 0 \/ index >= Len(voices))

\* voices[index] for a list index of Python, which counts from 0 and, when
\* negative, from the end
Item(voices, index) == IF index < 0 THEN voices[Len(voices) + index + 1] ELSE voices[index + 1]

\* the setvoice command of user u with what get_elevenlabs_voices returns
SetVoice(u, voices, voice_index) ==
    LET answered(text) == [call |-> "setvoice", user |-> u, value |-> text]
        index == ParseInt(voice_index) - 1 IN
    /\ IF voices = <<>>
       THEN /\ reply' = answered("Could not fetch available voices")
            /\ UNCHANGED voice_assignments
       ELSE IF voice_index = NoArgument
       THEN /\ reply' = answered("Available Voices")
            /\ UNCHANGED voice_assignments
       ELSE IF ~IsNumber(voice_index)
       THEN /\ reply' = answered("Please provide a valid number")
            /\ UNCHANGED voice_assignments
       ELSE IF ~InRange(index, voices)
       THEN /\ reply' = answered("Invalid voice number")
            /\ UNCHANGED voice_assignments
       ELSE /\ SaveVoiceAssignments([LoadVoiceAssignments EXCEPT
                    ![Key(u)] = Item(voices, index)])
            /\ reply' = answered("Your voice has been set")
    /\ UNCHANGED <<user_languages, target_language, serviceVars, sessionVars>>

NextPrefs ==
    \/ \E u \in Users, language \in Languages : SetUserInputLanguage(u, language)
    \/ \E u \in Users, language \in Languages : SetUserOutputLanguage(u, language)
    \/ \E u \in Users, voice_id \in Voices : AssignVoiceToUser(u, voice_id)

\* the calls and the command that read or write the voice assignments
NextVoices ==
    \/ \E u \in Users, voice_id \in Voices : AssignVoiceToUser(u, voice_id)
    \/ \E u \in Users, voices \in VoiceFiles, pick \in 1..Len(VoiceList) :
          GetUserVoice(u, voices, pick)
    \/ \E u \in Users, voices \in VoiceFiles, voice_index \in VoiceArguments :
          SetVoice(u, voices, voice_index)

SpecPrefs == Init /\ [][NextPrefs]_vars

SpecVoices == Init /\ [][NextVoices]_vars

\* ---- the setlang command during a voice session

\* setlang(language): the bot-wide target language and the output language
\* of the user who gave the command
SetLang(u, language) ==
    /\ target_language' = language
    /\ SaveUserLanguages([LoadUserLanguages EXCEPT
            ![Key(u)] = [@ EXCEPT !.has = TRUE, !.output = language]])
    /\ UNCHANGED <<voice_assignments, reply, serviceVars, sessionVars>>

\* ---- the commands that are refused

\* leave while the capture is suspended: stop_recording raises because the
\* voice client is not recording, so disconnect is not reached
LeaveRaises ==
    /\ connected
    /\ ~recording
    /\ leave_issued' = TRUE
    /\ UNCHANGED <<serviceVars, prefVars, now, voiceVars, sinkVars, workerVars, inbox,
                   nextFrame, playVars>>

\* join while the bot is in a voice channel: the command answers and returns
JoinRejected ==
    /\ InSession
    /\ reply' = [call |-> "join", user |-> 0, value |-> "I am already in a voice channel"]
    /\ UNCHANGED <<serviceVars, user_languages, voice_assignments, target_language,
                   sessionVars>>

NextCommands ==
    \/ Next
    \/ LeaveRaises
    \/ JoinRejected

SpecCommands == Init /\ [][NextCommands]_vars

\* ---- a sink used as constructed

\* recording was started with a sink that was constructed and given neither
\* a text channel nor a voice client
InitBare ==
    /\ InitCapture
    /\ sink = "bare"
    /\ last_sink = "none"
    /\ InitServices

SpecBare == InitBare /\ [][Next]_vars

\* one speaker, who is also the user giving the setlang commands
NextLang ==
    \/ NextSolo
    \/ \E language \in Languages : SetLang(1, language)

SpecLang == Init /\ [][NextLang]_vars

\* ---- vocabulary of the properties

Range(seq) == {seq[i] : i \in 1..Len(seq)}

\* the consecutive frames of seq are all less than the threshold apart
NoGapInside(seq) ==
    \A i \in 1..(Len(seq) - 1) : seq[i + 1].t - seq[i].t < silence_threshold

\* a play_audio call has stopped the capture and not yet restarted it
Suspended == \E p \in PlayIds : plays[p].st = "waiting" /\ plays[p].was /\ ~Stale(p)

\* every frame worker q has taken is in its buffer or in one of its flushes
Conserved(q) ==
    \A i \in 1..rd[q] :
        inbox[q][i] # EndSignal =>
            \/ inbox[q][i] \in Range(accumulated_audio[q])
            \/ \E k \in 1..Len(flushes[q]) : inbox[q][i] \in Range(flushes[q][k].audio)

\* the calls of the pipeline, in the order of the code
StepOrder == <<"transcribe", "translate", "send", "synthesize", "play">>

\* the calls made for utterance u, without the mark of a raised exception
Calls(u) == SelectSeq(u.steps, LAMBDA x : x # "error")

\* a message for flush k of queue q has been handed to the event loop
MessageSent(q, k) ==
    \E i \in 1..Len(messages[SpeakerOf(q)]) :
        messages[SpeakerOf(q)][i].q = q /\ messages[SpeakerOf(q)][i].k = k

\* a play_audio coroutine has been made for flush k of queue q
PlayRequested(q, k) == \E p \in PlayIds : playOf[p] = [q |-> q, k |-> k]

\* worker q is not inside the pipeline for its flush k
Finished(q, k) == k < Len(flushes[q]) \/ pc[q] \in {"wait", "ended"}

\* when the audio of utterance u (flush k of queue q) began to arrive
Arrival(u) == flushes[u.q][u.k].audio[1].t

\* ---- C1
\* C1: in every reachable state the voice client is not recording and playing
\* synthesized audio at the same time, also when play_audio coroutines overlap.
C1_NeverCaptureAndPlay == ~(recording /\ playing # 0)

\* two play_audio coroutines overlap: one still waits in its sleep loop while
\* the audio of another one is playing
C1_Witness ==
    /\ playing # 0
    /\ \E p \in PlayIds : p # playing /\ plays[p].st = "waiting" /\ plays[p].was

\* ---- C2
\* C2: when play_audio stopped the capture and the playback step then raises,
\* the capture has been started again by the time the call has failed.
C2_FailedPlaybackResumes ==
    \A p \in PlayIds :
        (plays[p].st = "failed" /\ plays[p].was) =>
            (Len(plays[p].log) >= 3 /\ plays[p].log[3] = TRUE)

C4_NoMergeAcrossGap ==
    \A q \in Sessions :
        /\ NoGapInside(accumulated_audio[q])
        /\ \A k \in 1..Len(flushes[q]) : NoGapInside(flushes[q][k].audio)

\* ---- C5
\* C5: a worker that has ended on the end signal has flushed every frame it
\* took from its queue.
C5_EndSignalFlushes ==
    \A q \in Sessions :
        pc[q] = "ended" =>
            \A i \in 1..rd[q] :
                inbox[q][i] # EndSignal =>
                    \E k \in 1..Len(flushes[q]) : inbox[q][i] \in Range(flushes[q][k].audio)

\* ---- C6
\* C6: a play_audio call entered while recording sees the capture state go
\* recording, stopped while it waits for the playback, and recording again
\* once it is done: exactly TRUE, FALSE, TRUE, with no other transition.
C6_CaptureSequence ==
    \A p \in PlayIds :
        /\ (plays[p].st = "waiting" /\ plays[p].was) =>
              (plays[p].log = <<TRUE, FALSE>> /\ (Stale(p) \/ ~recording))
        /\ (plays[p].st = "done" /\ plays[p].was) =>
              plays[p].log = <<TRUE, FALSE, TRUE>>

\* a play_audio call entered while recording has completed
C6_Witness == \E p \in PlayIds : plays[p].st = "done" /\ plays[p].was

\* ---- C7
\* C7: every frame put on a queue can still be read by a live worker: no frame
\* lies behind an end signal on its queue.
C7_FramesReachLiveWorker ==
    \A q \in Sessions : \A i \in 1..Len(inbox[q]) : \A j \in 1..(i - 1) :
        inbox[q][i] # EndSignal => inbox[q][j] # EndSignal

\* ---- C8
\* C8 as stated: while the capture is suspended no worker's buffer grows.
C8_NoGrowthWhileSuspended ==
    [][Suspended =>
          \A q \in Sessions : Len(accumulated_audio'[q]) <= Len(accumulated_audio[q])]_vars

\* C8 amended: while the capture is suspended nothing is put on any queue, and
\* a buffer grows only by the item at the head of its own queue.
C8_NoDeliveryWhileSuspended ==
    [][Suspended =>
          /\ inbox' = inbox
          /\ \A q \in Sessions :
                Len(accumulated_audio'[q]) > Len(accumulated_audio[q]) =>
                    /\ rd[q] < Len(inbox[q])
                    /\ accumulated_audio'[q] = Append(accumulated_audio[q], inbox[q][rd[q] + 1])
                    /\ rd'[q] = rd[q] + 1]_vars

\* the capture is suspended and a worker holds a frame it took from its queue
\* after the recording was stopped (the end signal is already behind it)
C8_Witness ==
    /\ Suspended
    /\ \E q \in Sessions :
          /\ accumulated_audio[q] # <<>>
          /\ rd[q] < Len(inbox[q])
          /\ inbox[q][rd[q] + 1] = EndSignal
          /\ pc[q] = "wait"

C10_WriteTouchesOneSpeaker ==
    [][\A b \in Speakers :
          Write(b) =>
              \A a \in Speakers \ {b} :
                  /\ user_queues'[a] = user_queues[a]
                  /\ processing_threads'[a] = processing_threads[a]
                  /\ \A q \in Sessions :
                        (inbox[q] # <<>> /\ inbox[q][1].sp = a) =>
                            /\ inbox'[q] = inbox[q]
                            /\ rd'[q] = rd[q]
                            /\ pc'[q] = pc[q]
                            /\ accumulated_audio'[q] = accumulated_audio[q]
                            /\ last_audio_time'[q] = last_audio_time[q]]_vars

\* speaker a holds buffered audio in a live session and a frame of another
\* speaker b was delivered after a's session began
C10_Witness ==
    \E a \in Speakers : \E b \in Speakers \ {a} :
        /\ user_queues[a] # 0 /\ user_queues[b] # 0
        /\ IsAlive(processing_threads[a])
        /\ accumulated_audio[processing_threads[a]] # <<>>
        /\ inbox[user_queues[b]][Len(inbox[user_queues[b]])].t
              > last_audio_time[processing_threads[a]]

\* ---- C12
\* C12: for one speaker the transcript messages, and likewise the playback
\* requests, are issued in the order in which the audio of their utterances
\* arrived.
C12_IssuedInArrivalOrder ==
    /\ \A s \in Speakers : \A i, j \in 1..Len(messages[s]) :
          i < j => Arrival(messages[s][i]) <= Arrival(messages[s][j])
    /\ \A p, r \in PlayIds :
          (p < r /\ playOf[r].q # 0 /\ SpeakerOf(playOf[p].q) = SpeakerOf(playOf[r].q)) =>
              Arrival(playOf[p]) <= Arrival(playOf[r])

\* ---- C13
\* C13: the calls made for an utterance are always a beginning of the order
\* transcribe, translate, send, synthesize, play; the call in progress is the
\* last one of them (all earlier ones have returned); a raised exception is
\* the end of the utterance; the message and the playback request exist
\* exactly when their step has been made.
C13_StepsInOrder ==
    \A q \in Sessions : \A k \in 1..Len(flushes[q]) :
        LET u == flushes[q][k]
            c == Calls(u)
        IN  /\ c = SubSeq(StepOrder, 1, Len(c))
            /\ \A i \in 1..(Len(u.steps) - 1) : u.steps[i] # "error"
            /\ ~Finished(q, k) =>
                  /\ u.steps = c
                  /\ pc[q] = "transcribe" => Len(c) = 1
                  /\ pc[q] = "translate" => Len(c) = 2
                  /\ pc[q] = "synth" => Len(c) = 4
            /\ MessageSent(q, k) <=> Len(c) >= 3
            /\ PlayRequested(q, k) <=> Len(c) = 5

\* all five steps have been made for an utterance
C13_Witness ==
    \E q \in Sessions : \E k \in 1..Len(flushes[q]) : flushes[q][k].steps = StepOrder

\* ---- C14
\* C14: when transcribe_audio returns an empty transcript, that step makes no
\* further call for the utterance, sends no message and requests no playback,
\* and the worker is back in audio_queue.get with an empty buffer; nothing
\* is ever added later to an utterance the worker has finished.
C14_EmptyTranscriptStops ==
    [][\A q \in Sessions :
          /\ TranscribeReturn(q, "") =>
                /\ flushes'[q] = flushes[q]
                /\ Current(q).steps = <<"transcribe">>
                /\ messages' = messages
                /\ playVars' = playVars
                /\ pc'[q] = "wait"
                /\ accumulated_audio'[q] = <<>>
          /\ \A k \in 1..Len(flushes[q]) :
                Finished(q, k) => (Len(flushes'[q]) >= k /\ flushes'[q][k] = flushes[q][k])]_vars

\* an utterance ended at the empty transcript, without message or playback,
\* and its worker has taken a later frame into its buffer
C14_Witness ==
    \E q \in Sessions : \E k \in 1..Len(flushes[q]) :
        /\ flushes[q][k].steps = <<"transcribe">>
        /\ Finished(q, k)
        /\ ~MessageSent(q, k) /\ ~PlayRequested(q, k)
        /\ pc[q] = "wait"
        /\ accumulated_audio[q] # <<>>
        /\ accumulated_audio[q][1].n > flushes[q][k].seen

\* ---- C15
\* C15: a translation is only asked for a non-empty transcript, and when
\* the call ends with an error status or an exception the translation is the
\* transcript itself and the message with the transcript and that text is
\* handed to the event loop in the same step.
C15_FailedTranslationFallsBack ==
    [][\A q \in Sessions : \A answer \in Answers \ {"ok"} :
          TranslateReturn(q, answer) =>
              LET s == SpeakerOf(q)
                  text == Current(q).transcription
              IN  /\ text # ""
                  /\ messages'[s] = Append(messages[s],
                          [q |-> q, k |-> Len(flushes[q]),
                           transcription |-> text, translation |-> text])
                  /\ pc'[q] = "synth"]_vars

\* a translation call has failed and the last message of the speaker carries
\* the transcript twice
C15_Witness ==
    \E q \in Sessions :
        /\ pc[q] = "synth"
        /\ Current(q).answer \in {"status", "exception"}
        /\ LET msgs == messages[SpeakerOf(q)]
           IN  /\ msgs # <<>>
               /\ msgs[Len(msgs)].q = q
               /\ msgs[Len(msgs)].translation = msgs[Len(msgs)].transcription
               /\ msgs[Len(msgs)].transcription = "hello"

\* ---- C16
\* C16: when generate_speech returns nothing or raises, the message of the
\* utterance has been sent, the step makes no play_audio coroutine and
\* leaves the capture as it is; and a play_audio coroutine is only ever made
\* for the utterance whose synthesis is just returning, so none is made for
\* that utterance later.
C16_NoSpeechNoPlayback ==
    [][/\ \A q \in Sessions :
             (pc[q] = "synth" /\ (SynthReturn(q, FALSE) \/ PipelineRaises(q))) =>
                 /\ MessageSent(q, Len(flushes[q]))
                 /\ messages' = messages
                 /\ playVars' = playVars
                 /\ recording' = recording
                 /\ Finished(q, Len(flushes[q]))'
       /\ \A p \in PlayIds :
             playOf'[p] # playOf[p] =>
                 /\ playOf[p] = NoUtterance
                 /\ pc[playOf'[p].q] = "synth"
                 /\ playOf'[p].k = Len(flushes[playOf'[p].q])
                 /\ SynthReturn(playOf'[p].q, TRUE)]_vars

\* generate_speech returned nothing while the voice client was connected and
\* recording: the message is there, no playback was requested
C16_Witness ==
    \E q \in Sessions : \E k \in 1..Len(flushes[q]) :
        /\ flushes[q][k].steps = SubSeq(StepOrder, 1, 4)
        /\ Finished(q, k)
        /\ Connected(q) /\ recording
        /\ MessageSent(q, k)
        /\ ~PlayRequested(q, k)

\* ---- C17
\* C17: when a call of the pipeline raises, the worker is back in
\* audio_queue.get with an empty buffer, nothing more is done for the
\* utterance, and no other worker, no queue and no entry of the sink's maps
\* changes.
C17_ErrorConfined ==
    [][\A q \in Sessions :
          PipelineRaises(q) =>
              /\ pc'[q] = "wait"
              /\ accumulated_audio'[q] = <<>>
              /\ rd'[q] = rd[q]
              /\ Len(flushes'[q]) = Len(flushes[q])
              /\ messages' = messages
              /\ playVars' = playVars
              /\ inbox' = inbox
              /\ user_queues' = user_queues
              /\ processing_threads' = processing_threads
              /\ \A x \in Sessions \ {q} :
                    /\ pc'[x] = pc[x]
                    /\ accumulated_audio'[x] = accumulated_audio[x]
                    /\ last_audio_time'[x] = last_audio_time[x]
                    /\ rd'[x] = rd[x]
                    /\ flushes'[x] = flushes[x]]_vars

\* a worker whose pipeline raised is alive, still in the sink's maps, and has
\* taken a later frame into its buffer, next to a live worker of another
\* speaker
C17_Witness ==
    \E q \in Sessions : \E k \in 1..Len(flushes[q]) :
        /\ "error" \in Range(flushes[q][k].steps)
        /\ pc[q] = "wait"
        /\ user_queues[SpeakerOf(q)] = q /\ processing_threads[SpeakerOf(q)] = q
        /\ accumulated_audio[q] # <<>>
        /\ accumulated_audio[q][1].n > flushes[q][k].seen
        /\ \E x \in Sessions \ {q} : IsAlive(x) /\ SpeakerOf(x) # SpeakerOf(q)

\* ---- C18
\* C18: after write(data, s) the queue stored for s belongs to a live thread
\* stored for s and ends with the frame; a new queue and thread were made
\* exactly when s had no entry or its thread was not alive; otherwise the
\* stored queue and thread are the ones from before.
C18_WriteBindsLiveWorker ==
    [][\A s \in Speakers :
          Write(s) =>
              LET q == user_queues'[s]
                  fresh == user_queues[s] = 0 \/ pc[processing_threads[s]] = "ended"
              IN  /\ q # 0
                  /\ processing_threads'[s] = q
                  /\ pc'[q] \notin {"none", "ended"}
                  /\ inbox'[q] # <<>>
                  /\ inbox'[q][Len(inbox'[q])] = [sp |-> s, n |-> Len(inbox'[q]), t |-> now]
                  /\ fresh <=> (q = nextQ /\ nextQ' = nextQ + 1 /\ pc[q] = "none")
                  /\ ~fresh => (q = user_queues[s] /\ inbox'[q] = Append(inbox[q], inbox'[q][Len(inbox'[q])]))]_vars

\* a frame was delivered for a speaker whose earlier worker of this voice
\* session had ended: the map holds a new queue with a live worker and the
\* frame on it
C18_Witness ==
    \E s \in Speakers : \E old \in Sessions :
        /\ old >= liveFrom
        /\ SpeakerOf(old) = s
        /\ pc[old] = "ended"
        /\ user_queues[s] > old
        /\ processing_threads[s] = user_queues[s]
        /\ IsAlive(user_queues[s])
        /\ inbox[user_queues[s]] # <<>>

C20_DeliveryNeverWaits ==
    \A a \in Speakers :
        (/\ recording
         /\ nextFrame <= MaxFrames
         /\ NeedNew(a) => nextQ <= MaxSessions) => ENABLED Write(a)

\* a frame of speaker a has just been queued while a's worker and the worker
\* of another speaker are inside pipeline calls
C20_Witness ==
    \E a \in Speakers : \E b \in Speakers \ {a} :
        /\ user_queues[a] # 0 /\ user_queues[b] # 0
        /\ pc[user_queues[a]] \in {"transcribe", "translate", "synth"}
        /\ pc[user_queues[b]] \in {"transcribe", "translate", "synth"}
        /\ Pending(user_queues[a]) # <<>>
        /\ Pending(user_queues[a])[1].t = now

\* ---- C11
\* C11: at any time at most one worker thread is alive per speaker id; a
\* worker that is just taking an item from its queue (it may be the end
\* signal) is not counted.
C11_OneLiveWorkerPerSpeaker ==
    \A s \in Speakers :
        Cardinality({q \in Sessions :
                        /\ IsAlive(q)
                        /\ SpeakerOf(q) = s
                        /\ ~(pc[q] = "wait" /\ Pending(q) # <<>>)}) <= 1

\* ---- C21
\* C21: a worker never hands an empty buffer to the pipeline: when
\* audio_queue.get times out and the buffer is empty, no pipeline call is
\* made, no message or playback is issued, the worker's buffer, last-frame
\* time and queue position stay as they are and it waits again.
C21_EmptyTimeoutIdles ==
    [][\A q \in Sessions :
          (Timeout(q) /\ accumulated_audio[q] = <<>>) =>
              /\ pc'[q] = "wait"
              /\ flushes' = flushes
              /\ messages' = messages
              /\ plays' = plays /\ nextPlay' = nextPlay
              /\ accumulated_audio' = accumulated_audio
              /\ last_audio_time' = last_audio_time
              /\ rd' = rd]_vars

\* a worker whose get timed out on an empty buffer after an utterance is
\* waiting again
C21_Witness ==
    \E q \in Sessions :
        /\ idle[q] > 0
        /\ pc[q] = "wait"
        /\ accumulated_audio[q] = <<>>
        /\ Len(flushes[q]) = 1

\* ---- C22
\* C22: an utterance whose audio is shorter than the minimum size is dropped
\* by transcribe_audio before anything is sent: for it no transcription,
\* translation or synthesis request is made, no message is sent and no
\* playback is requested; the pipeline ends after the call of
\* transcribe_audio.
C22_ShortAudioDropped ==
    \A i \in 1..Len(runs) :
        runs[i].size < MinAudioBytes =>
            /\ runs[i].steps = <<"transcribe">>
            /\ runs[i].requests = <<FALSE, FALSE, FALSE>>

\* an utterance of some but too few bytes was processed while every key was
\* set, and the next utterance went through the whole pipeline
C22_Witness ==
    /\ config.ELEVENLABS_API_KEY
    /\ Len(runs) = 2
    /\ runs[1].size = MinAudioBytes - 1
    /\ runs[2].steps = StepOrder

\* ---- C29
\* C29: a secret that is not set is reported by config.py at startup and by
\* nothing else: no line about a missing secret is logged while an utterance
\* is processed; and without DISCORD_TOKEN the program exits before any
\* utterance is processed.
C29_CredentialReportedOnce ==
    /\ \A i \in 1..Len(log) :
          log[i].about \in {"DISCORD_TOKEN", "ELEVENLABS_API_KEY", "MISTRAL_API_KEY"} =>
              log[i].by = "config"
    /\ phase = "exited" => runs = <<>>

\* ---- C30
\* C30: set_user_input_language changes nothing but the input language of its
\* user: that user's output language and voice and every other user's three
\* preferences stay as they were; likewise set_user_output_language changes
\* only the output language of its user and assign_voice_to_user only the
\* voice of its user.
C30_PreferencesIndependent ==
    [][\A u \in Users :
          LET OthersKept ==
                  \A v \in Users \ {u} :
                      /\ InputLanguage(user_languages', v) = InputLanguage(user_languages, v)
                      /\ OutputLanguage(user_languages', v) = OutputLanguage(user_languages, v)
                      /\ AssignedVoice(voice_assignments', v) = AssignedVoice(voice_assignments, v)
              InputKept == InputLanguage(user_languages', u) = InputLanguage(user_languages, u)
              OutputKept == OutputLanguage(user_languages', u) = OutputLanguage(user_languages, u)
              VoiceKept == AssignedVoice(voice_assignments', u) = AssignedVoice(voice_assignments, u)
          IN  /\ (\E l \in Languages : SetUserInputLanguage(u, l)) =>
                    (OthersKept /\ OutputKept /\ VoiceKept)
              /\ (\E l \in Languages : SetUserOutputLanguage(u, l)) =>
                    (OthersKept /\ InputKept /\ VoiceKept)
              /\ (\E w \in Voices : AssignVoiceToUser(u, w)) =>
                    (OthersKept /\ InputKept /\ OutputKept)]_vars

\* a user has an input language, an output language and a voice that all
\* differ from the defaults, and another user has all three set as well
C30_Witness ==
    /\ InputLanguage(user_languages, 1) = "French"
    /\ OutputLanguage(user_languages, 1) = "English"
    /\ AssignedVoice(voice_assignments, 1) = "voice-b"
    /\ InputLanguage(user_languages, 2) = "French"
    /\ OutputLanguage(user_languages, 2) = "French"
    /\ AssignedVoice(voice_assignments, 2) = "voice-a"

\* ---- C23
\* C23: when a play_audio coroutine has finished, normally or with an
\* exception, the temporary file it was given has been deleted.
C23_PlayedFileDeleted ==
    \A p \in PlayIds :
        plays[p].st \in {"done", "failed"} => files[p] = "deleted"

\* ---- C27
\* C27: a play_audio coroutine that is entered while its voice client is
\* connected and the audio output works starts its playback, whether or not
\* the audio of another coroutine is still playing.
C27_NoPlaybackRejected ==
    [][\A p \in PlayIds :
          (PlayEnter(p, TRUE) /\ Connected(playOf[p].q)) => plays'[p].st = "waiting"]_vars

\* ---- C24
\* C24: when play_audio starts the recording again and the voice client has
\* a last_sink, it records with the sink it recorded with before, the
\* user_queues and processing_threads maps are the same as before, and no
\* audio that a mapped worker had taken before the suspension is lost: every
\* frame it took is in its buffer or was flushed.
C24_ResumeKeepsRegistry ==
    [][\A p \in PlayIds :
          (PlayWake(p) /\ ~recording /\ recording') =>
              /\ sink' = sink
              /\ user_queues' = user_queues
              /\ processing_threads' = processing_threads
              /\ \A q \in MappedQueues : Conserved(q)]_vars

C26_TeardownDoesNotCancel ==
    [][\A q \in Sessions :
          (pc[q] \in {"transcribe", "translate", "synth"} /\ EndSignal \in Range(Pending(q))) =>
              /\ rd'[q] = rd[q]
              /\ pc'[q] # "ended"
              /\ pc[q] = "transcribe" => ENABLED TranscribeReturn(q, "hello")
              /\ pc[q] = "translate" => ENABLED TranslateReturn(q, "ok")
              /\ pc[q] = "synth" => ENABLED SynthReturn(q, FALSE)
              /\ (\E answer \in Answers : TranslateReturn(q, answer)) =>
                    MessageSent(q, Len(flushes[q]))'
              /\ (SynthReturn(q, TRUE) /\ Connected(q)) =>
                    PlayRequested(q, Len(flushes[q]))']_vars

\* the playback of another utterance stopped the capture while worker q was
\* inside the pipeline; q has since finished all five steps for its
\* utterance and the end signal is still waiting on its queue
C26_Witness ==
    \E q \in Sessions : \E p \in PlayIds :
        /\ playing = p /\ plays[p].was /\ ~Stale(p)
        /\ pc[q] = "wait"
        /\ playSince < waitStart[q]
        /\ flushes[q] # <<>>
        /\ Current(q).steps = StepOrder
        /\ rd[q] = Current(q).seen
        /\ Pending(q) # <<>>
        /\ Head(Pending(q)) = EndSignal

\* ---- C28
\* C28: a worker with the end signal on its queue ends in the end, as long
\* as its calls return; and the step that takes the end signal ends the
\* worker at once, without a flush or any other pipeline call.
C28_EndSignalEndsWorker ==
    /\ \A q \in Sessions : (EndSignal \in Range(inbox[q])) ~> (pc[q] = "ended")
    /\ [][\A q \in Sessions :
             (WorkerGet(q) /\ Head(Pending(q)) = EndSignal) =>
                 /\ pc'[q] = "ended"
                 /\ flushes' = flushes
                 /\ messages' = messages
                 /\ plays' = plays]_vars

\* a worker has ended on the end signal with an empty buffer after its one
\* utterance went through the pipeline
C28_Witness ==
    \E q \in Sessions :
        /\ pc[q] = "ended"
        /\ inbox[q][rd[q]] = EndSignal
        /\ Len(flushes[q]) = 1
        /\ flushes[q][1].seen = rd[q] - 1
        /\ flushes[q][1].steps = StepOrder

\* ---- C31
\* C31: no frame a worker took is in two of its flushes, and a worker that
\* waits for audio holds no frame in its buffer that it has already flushed:
\* the buffer was emptied when the pipeline was left, with or without an
\* exception.
C31_NoFrameFlushedTwice ==
    \A q \in Sessions :
        /\ \A j, k \in 1..Len(flushes[q]) :
              j # k => Range(flushes[q][j].audio) \cap Range(flushes[q][k].audio) = {}
        /\ \A k \in 1..Len(flushes[q]) :
              \A i, j \in 1..Len(flushes[q][k].audio) :
                  i # j => flushes[q][k].audio[i] # flushes[q][k].audio[j]
        /\ pc[q] = "wait" =>
              \A k \in 1..Len(flushes[q]) :
                  Range(accumulated_audio[q]) \cap Range(flushes[q][k].audio) = {}

\* a worker whose first utterance ended in an exception has flushed a second
\* utterance
C31_Witness ==
    \E q \in Sessions :
        /\ Len(flushes[q]) = 2
        /\ "error" \in Range(flushes[q][1].steps)
        /\ flushes[q][2].audio # <<>>

\* ---- C32
\* C32: the frames put on a worker's queue while it is inside a pipeline call
\* are taken afterwards in the order of the queue: the buffer of a waiting
\* worker is the run of frames it took since its last flush, in that order,
\* no frame that waits on the queue of a worker inside a pipeline call lies
\* behind an end signal, and a worker that has ended has left no frame on its
\* queue.
C32_QueuedFramesReachBuffer ==
    \A q \in Sessions :
        /\ pc[q] \in {"transcribe", "translate", "synth"} =>
              \A i, j \in 1..Len(Pending(q)) :
                  (i < j /\ Pending(q)[i] = EndSignal) => Pending(q)[j] = EndSignal
        /\ pc[q] = "wait" =>
              LET from == IF flushes[q] = <<>> THEN 0 ELSE Current(q).seen IN
              accumulated_audio[q] = SubSeq(inbox[q], from + 1, rd[q])
        /\ pc[q] = "ended" =>
              \A i \in (rd[q] + 1)..Len(inbox[q]) : inbox[q][i] = EndSignal

\* C33: a worker is given the target language current at its creation, keeps
\* it for as long as it exists whatever setlang does meanwhile, and every
\* translation it asks for names that language
C33_WorkerKeepsTargetLanguage ==
    [][\A q \in Sessions :
          /\ (pc[q] = "none" /\ pc'[q] # "none") => target_lang'[q] = target_language
          /\ pc[q] # "none" => target_lang'[q] = target_lang[q]
          /\ \A k \in 1..Len(flushes'[q]) :
                "translate" \in Range(flushes'[q][k].steps) =>
                    flushes'[q][k].target = target_lang'[q]]_vars

\* a worker translated into the language of its creation after setlang had
\* named another one, and a worker created after that translated into the
\* new one
C33_Witness ==
    \E q1, q2 \in Sessions :
        /\ q1 < q2
        /\ \E k \in 1..Len(flushes[q1]) :
              /\ "translate" \in Range(flushes[q1][k].steps)
              /\ flushes[q1][k].target = "Spanish"
        /\ \E k \in 1..Len(flushes[q2]) :
              /\ "translate" \in Range(flushes[q2][k].steps)
              /\ flushes[q2][k].target = "French"
        /\ target_language = "English"

\* C34: a write to a sink without text channel or voice client starts no
\* worker and maps the speaker to a new queue that holds this frame only;
\* such a queue never gets a worker, so nothing is ever taken from it or
\* flushed
C34_BareSinkFlushesNothing ==
    [][/\ (sink = "bare" /\ nextFrame' # nextFrame) =>
             /\ pc' = pc
             /\ processing_threads' = processing_threads
             /\ \E s \in Speakers :
                   /\ user_queues'[s] = nextQ
                   /\ user_queues[s] # nextQ
                   /\ Len(inbox'[nextQ]) = 1
                   /\ inbox'[nextQ][1].t = now
       /\ \A q \in Sessions :
             (inbox[q] # <<>> /\ pc[q] = "none") =>
                 /\ pc'[q] = "none"
                 /\ rd'[q] = 0
                 /\ accumulated_audio'[q] = <<>>
                 /\ flushes'[q] = <<>>]_vars

\* two frames of one speaker were written to the bare sink, more than the
\* silence threshold ago: the first queue was replaced by the second
C34_Witness ==
    /\ sink = "bare"
    /\ \E s \in Speakers :
          /\ user_queues[s] = 2
          /\ SpeakerOf(1) = s
          /\ SpeakerOf(2) = s
          /\ pc[1] = "none"
          /\ pc[2] = "none"
          /\ now - inbox[2][1].t >= silence_threshold

\* C35: once leave was given the capture is not active until the next join
C35_NoCaptureAfterLeave == leave_issued => ~recording

\* C36: with nothing stored each getter returns the default it is given;
\* a setter makes the getter of its kind return the stored language for
\* that user whatever the default, and every other step leaves what the
\* getter returns as it was
C36_LanguageRoundTrip ==
    /\ \A u \in Users, d \in Defaults :
          /\ GetUserInputLanguage(user_languages, u, d) = d
          /\ GetUserOutputLanguage(user_languages, u, d) = d
    /\ [][\A u \in Users, d \in Defaults :
            /\ \A language \in Languages :
                  /\ SetUserInputLanguage(u, language) =>
                        GetUserInputLanguage(user_languages', u, d) = language
                  /\ SetUserOutputLanguage(u, language) =>
                        GetUserOutputLanguage(user_languages', u, d) = language
            /\ (~ \E language \in Languages : SetUserInputLanguage(u, language)) =>
                  GetUserInputLanguage(user_languages', u, d) =
                      GetUserInputLanguage(user_languages, u, d)
            /\ (~ \E language \in Languages : SetUserOutputLanguage(u, language)) =>
                  GetUserOutputLanguage(user_languages', u, d) =
                      GetUserOutputLanguage(user_languages, u, d)]_vars

\* a user stored an output language and no input language, while another
\* user stored another output language: the getters return the stored one
\* and the supplied default
C36_Witness ==
    \E u \in Users :
        /\ user_languages.valid
        /\ user_languages.data[Key(u)] =
               [has |-> TRUE, input |-> Absent, output |-> "French"]
        /\ GetUserOutputLanguage(user_languages, u, "German") = "French"
        /\ GetUserInputLanguage(user_languages, u, "German") = "German"
        /\ \E v \in Users : v # u /\ user_languages.data[Key(v)].output = "English"

\* C37: get_user_voice for a user with a stored voice returns that voice and
\* leaves the file as it is; for a user without one it stores the voice it
\* returns; a stored voice changes only when a voice is assigned to that
\* user, and an assignment to another user leaves it alone
C37_VoiceAssignmentStable ==
    [][\A u \in Users :
          LET before == AssignedVoice(voice_assignments, u)
              after == AssignedVoice(voice_assignments', u) IN
          /\ (before # Absent /\ \E voices \in VoiceFiles, pick \in 1..Len(VoiceList) :
                                     GetUserVoice(u, voices, pick)) =>
                 /\ reply'.value = before
                 /\ voice_assignments' = voice_assignments
          /\ (before = Absent /\ \E pick \in 1..Len(VoiceList) :
                                     GetUserVoice(u, VoiceList, pick)) =>
                 /\ after \in Range(VoiceList)
                 /\ reply'.value = after
          /\ \A v \in Users \ {u}, voice_id \in Voices :
                 AssignVoiceToUser(v, voice_id) => after = before
          /\ (before # Absent /\ after # before) =>
                 \/ \E voice_id \in Voices : AssignVoiceToUser(u, voice_id)
                 \/ \E voices \in VoiceFiles, voice_index \in VoiceArguments :
                       SetVoice(u, voices, voice_index)]_vars

\* get_user_voice has just returned the stored voice of a user while the
\* other users hold another voice
C37_Witness ==
    /\ reply.call = "get_user_voice"
    /\ reply.value = VoiceList[2]
    /\ AssignedVoice(voice_assignments, reply.user) = VoiceList[2]
    /\ \A v \in Users \ {reply.user} : AssignedVoice(voice_assignments, v) = VoiceList[1]

\* the answers of setvoice that report an error
VoiceErrors ==
    {"Could not fetch available voices", "Please provide a valid number",
     "Invalid voice number"}

\* C38: setvoice with the number n of a listed voice stores the n-th voice
\* for the user and nothing else; without voices, with a word or with a
\* number that is not listed it answers with an error and the file stays
\* as it is
C38_SetVoiceChecksNumber ==
    [][\A u \in Users, voices \in VoiceFiles, voice_index \in VoiceArguments :
          SetVoice(u, voices, voice_index) =>
              IF \E n \in 1..Len(voices) : voice_index = ToString(n)
              THEN LET n == CHOOSE n \in 1..Len(voices) : voice_index = ToString(n) IN
                   /\ reply'.value = "Your voice has been set"
                   /\ AssignedVoice(voice_assignments', u) = voices[n]
                   /\ \A v \in Users \ {u} :
                         AssignedVoice(voice_assignments', v) =
                             AssignedVoice(voice_assignments, v)
              ELSE /\ voice_assignments' = voice_assignments
                   /\ (voices = <<>> \/ voice_index # NoArgument) =>
                         reply'.value \in VoiceErrors]_vars

\* setvoice has just refused a number that is not listed, and the user
\* still has the second voice of the list, chosen before
C38_Witness ==
    /\ reply.call = "setvoice"
    /\ reply.value = "Invalid voice number"
    /\ AssignedVoice(voice_assignments, reply.user) = VoiceList[2]

\* C39: a join given while the bot is in a voice channel only answers: the
\* connection, the capture, the sink, the stored sink, the map, the queues
\* and the workers stay as they are; a join that goes through starts the
\* capture with a new sink that has a text channel, an empty map and no
\* threads, and stores that sink for the resume after a playback
C39_JoinOnlyWhenOutside ==
    [][/\ (connected /\ (Join \/ JoinRejected)) =>
             /\ reply'.call = "join"
             /\ UNCHANGED <<voiceVars, sinkVars, workerVars, inbox, playVars>>
       /\ (~connected /\ connected') =>
             /\ Join
             /\ recording'
             /\ user_queues' = [s \in Speakers |-> 0]
             /\ processing_threads' = [s \in Speakers |-> 0]
             /\ sink' = "joined"
             /\ last_sink' = sink'
             /\ HasDestination'
             /\ liveFrom' = nextQ]_vars

\* a second session was joined, a speaker was heard in it, and a further
\* join was refused
C39_Witness ==
    /\ reply.call = "join"
    /\ connected
    /\ recording
    /\ liveFrom > 1
    /\ last_sink = "joined"
    /\ \E s \in Speakers : user_queues[s] >= liveFrom
====
